---- MODULE Spec2Model ----
(***************************************************************************)
(* A model of bot.py (andydhancock/autoai): the cycle loop of main and     *)
(* AIManager.execute_cycle, the budget gate, the cycle store on disk, the  *)
(* CommandExecutor and the instance probe at startup.                      *)
(*                                                                         *)
(* Eight specifications share the module:                                  *)
(*   Spec      the process of main(): construction, resumption, the cycle  *)
(*             loop with its error handler, restarts, the clock;           *)
(*   SpecBudget  the same process without commands and human tasks, over   *)
(*             more prompt and response sizes, for the budget gate;        *)
(*   SpecAct   the same process with directives that run commands or ask   *)
(*             the human, and a backend that always answers;               *)
(*   SpecExec  CommandExecutor.run_command on one command at a time;       *)
(*   SpecInst  the start-up probe of several instances of the script;      *)
(*   SpecPrompt  the assembly of the prompt in generate_task_with_gpt4,    *)
(*             one input at a time, with the retries of main;              *)
(*   SpecTask  execute_server_task on one command or list at a time;       *)
(*   SpecLogs  the process of main() over cycles 19 to 21, with directives *)
(*             that carry descriptions and notes and nothing to run.       *)
(*                                                                         *)
(* Conventions.  Python's None is the empty tuple <<>> where the value is  *)
(* otherwise a number or a text (a present value v is <<v>>); a file that  *)
(* does not exist is <<>> and a file holding c is <<c>>.  Texts whose only *)
(* observable is their length are modelled by that length; money is        *)
(* counted in units of 1/100000 dollar, so that the per-token rates of the *)
(* source (0.01/1000 and 0.03/1000 dollar) are the integers 1 and 3; time  *)
(* slept is counted in hundredths of a second.                             *)
(***************************************************************************)
EXTENDS Integers, Sequences, FiniteSets, TLC

VARIABLES
    \* ---- CommandExecutor.run_command (SpecExec)
    xpc,          \* position in run_command
    process,      \* the subprocess: pid, returncode, whether it was killed
    xin,          \* what the command does: the bytes it writes
    result,       \* local `result` of run_command (the report being built)
    sout,         \* local `sout`
    serr,         \* local `serr`
    timedout,     \* whether asyncio.TimeoutError was caught
    \* ---- the start-up probe of main (SpecInst)
    inst,         \* per process slot: its state and its state directory
    \* ---- the process of main() (Spec, SpecBudget): memory
    pc,           \* position of the process in main / execute_cycle
    cycle_count,  \* AIManager.cycle_count
    dynamic_part, \* main's dynamic_part, the input of the next cycle
    spent_today,  \* AIManager.spent_today
    last_reset,   \* AIManager.last_reset
    notes,        \* AIManager.notes, the text read from and added to notes
    task_data,    \* execute_cycle: the response being handled
    command_output, \* execute_cycle: command_output
    err,          \* the exception in flight, or the last one handled
    slept,        \* what the except branch of main slept, in 1/100 s
    \* ---- the disk and the world
    store,        \* the cycle directories and their files
    descriptions_file, \* descriptions.txt
    notes_file,   \* notes.txt
    today,        \* datetime.date.today(), as a day number
    \* ---- history of the current attempt, kept for the properties
    attempt,      \* the cycle id and the input the running attempt began with
    effects,      \* what the running attempt has done so far
    gate,         \* the last evaluation of can_make_api_call
    lastCall,     \* the last call that reached the generation backend
    \* ---- prompt assembly in generate_task_with_gpt4 (SpecPrompt)
    apc,          \* position in the assembly
    ain,          \* its inputs: dynamic_part as passed, the files, the logs
    atext,        \* local `dynamic_part`, the user text being built
    \* ---- execute_server_task (SpecTask)
    tpc,          \* position in execute_server_task
    task,         \* its argument: a command or a list of commands
    tdone,        \* the commands run_command was called with, with what
                  \* each did, in the order of the calls
    tresult,      \* local `result`, the list of the reports
    treturn       \* the value returned

xvars == <<xpc, process, xin, result, sout, serr, timedout>>

ivars == <<inst>>

memvars == <<pc, cycle_count, dynamic_part, spent_today, last_reset, notes,
             task_data, command_output, err, slept>>

diskvars == <<store, descriptions_file, notes_file>>

histvars == <<attempt, effects, gate, lastCall>>

mvars == <<memvars, diskvars, today, histvars>>

avars == <<apc, ain, atext>>

tvars == <<tpc, task, tdone, tresult, treturn>>

vars == <<xvars, ivars, mvars, avars, tvars>>

\* what run_command leaves alone
others_x == <<ivars, mvars, avars, tvars>>

\* what the start-up probe leaves alone
others_i == <<xvars, mvars, avars, tvars>>

\* what the process of main leaves alone
others_m == <<xvars, ivars, avars, tvars>>

\* what the prompt assembly leaves alone
others_a == <<xvars, ivars, mvars, tvars>>

\* what execute_server_task leaves alone
others_t == <<xvars, ivars, mvars, avars>>

\* ------------------------------------------------------------------------
\* Small helpers
\* ------------------------------------------------------------------------
None == <<>>

Some(v) == <<v>>

Min(a, b) == IF a <= b THEN a ELSE b

\* ------------------------------------------------------------------------
\* CommandExecutor
\* ------------------------------------------------------------------------
\* sout[0:2000] and serr[0:2000]
OutputCap == 2000

\* the length beyond which the truncation marker is appended
MarkerThreshold == 2500

\* process ids drawn for subprocesses
MaxPid == 2

Pids == 1..MaxPid

\* return codes of a finished process
ReturnCodes == {0, 1}

\* lengths, in bytes, of what a command writes to one stream
StreamLens ==
    {0, 500, OutputCap - 1, OutputCap, OutputCap + 1, MarkerThreshold,
     MarkerThreshold + 1, 5000}

\* A stream as captured: n bytes of which `bad` are not valid UTF-8 (the rest
\* printable ASCII).
Streams == {[len |-> n, bad |-> b] : n \in StreamLens, b \in {0, 1}} \
           {[len |-> 0, bad |-> 1]}

\* The initial value "" of sout and serr (a str, not bytes).
EmptyStr == [len |-> 0, bad |-> 0]

\* sout.decode(), falling back to str(sout): the number of characters of the
\* text.  An ASCII stream decodes to as many characters as bytes; str() of a
\* bytes object is b'...' with each invalid byte written \xNN.
Decode(s) == IF s.bad = 0 THEN s.len ELSE s.len + 3 + 3 * s.bad

\* One output section of the report: absent for an empty stream, else the
\* head of the text and the marker.
Section(s) ==
    IF s.len = 0
    THEN [present |-> FALSE, chars |-> 0, marker |-> FALSE]
    ELSE [present |-> TRUE,
          chars   |-> Min(Decode(s), OutputCap),
          marker  |-> Decode(s) > MarkerThreshold]

\* The status line chosen by `if process.returncode == 0 ... else ...`, which
\* runs after the try/except whatever happened in it.
StatusLine(rc) ==
    IF rc = Some(0)
    THEN [status |-> "success", code |-> rc, pid |-> None]
    ELSE [status |-> "failed", code |-> rc, pid |-> None]

\* result = f"Command '{cmd}' timed out, left running Process#:" + pid
TimeoutLine(pid) == [status |-> "timeout", code |-> None, pid |-> Some(pid)]

\* lines 411-438: the status line, then the two output sections
Report(rc, so, se) ==
    [line |-> StatusLine(rc), stdout |-> Section(so), stderr |-> Section(se)]

NoResult == [status |-> "", code |-> None, pid |-> None]

NoProcess == [pid |-> 0, returncode |-> None, killed |-> FALSE, alive |-> FALSE]

XInit ==
    /\ xpc = "idle"
    /\ process = NoProcess
    /\ xin = [out |-> EmptyStr, err |-> EmptyStr]
    /\ result = [line |-> NoResult, stdout |-> Section(EmptyStr),
                 stderr |-> Section(EmptyStr)]
    /\ sout = EmptyStr
    /\ serr = EmptyStr
    /\ timedout = FALSE

\* asyncio.create_subprocess_shell and the three initialisations
XCreate ==
    /\ xpc \in {"idle", "done"}
    /\ \E p \in Pids, o \in Streams, e \in Streams :
          /\ process' = [pid |-> p, returncode |-> None, killed |-> FALSE,
                         alive |-> TRUE]
          /\ xin' = [out |-> o, err |-> e]
    /\ result' = [line |-> NoResult, stdout |-> Section(EmptyStr),
                  stderr |-> Section(EmptyStr)]
    /\ sout' = EmptyStr
    /\ serr' = EmptyStr
    /\ timedout' = FALSE
    /\ xpc' = "wait"
    /\ UNCHANGED others_x

\* process.communicate() returns within the timeout: the process has ended
\* and both streams were read to their end.
XCommunicate ==
    /\ xpc = "wait"
    /\ \E rc \in ReturnCodes :
          process' = [process EXCEPT !.returncode = Some(rc), !.alive = FALSE]
    /\ sout' = xin.out
    /\ serr' = xin.err
    /\ xpc' = "classify"
    /\ UNCHANGED <<xin, result, timedout>>
    /\ UNCHANGED others_x

\* asyncio.TimeoutError: the except branch records the pid; the process is
\* neither killed nor waited for, sout and serr keep their initial "".  The
\* process may still end on its own while wait_for unwinds, so the returncode
\* seen afterwards is None or a code.
XTimeout ==
    /\ xpc = "wait"
    /\ timedout' = TRUE
    /\ result' = [result EXCEPT !.line = TimeoutLine(process.pid)]
    /\ \/ UNCHANGED process
       \/ \E rc \in ReturnCodes :
             process' = [process EXCEPT !.returncode = Some(rc),
                                        !.alive = FALSE]
    /\ xpc' = "classify"
    /\ UNCHANGED <<xin, sout, serr>>
    /\ UNCHANGED others_x

\* the rest of run_command, from line 411 to the return
XReport ==
    /\ xpc = "classify"
    /\ result' = Report(process.returncode, sout, serr)
    /\ xpc' = "done"
    /\ UNCHANGED <<process, xin, sout, serr, timedout>>
    /\ UNCHANGED others_x

XNext == XCreate \/ XCommunicate \/ XTimeout \/ XReport

\* ------------------------------------------------------------------------
\* main: the probe for other running instances (lines 444-460)
\* ------------------------------------------------------------------------
\* `if num_instances > 2`: the most instances allowed to run
InstanceCap == 2

\* process slots from which instances of the script are started
NInst == 4

Slots == 1..NInst

\* base_cycle_dir as main builds it from the count: "./cycles/" for a
\* count of 1 (or 0), "./cycles_<count>/" above.
BaseCycleDir(num) ==
    IF num > 1 THEN <<"./cycles", "_", num, "/">> ELSE <<"./cycles", "/">>

NoDir == <<>>

\* ps -ef | grep <cwd>/bot.py | grep -v grep | wc -l : every process of the
\* script that exists, the one that asks included.
NumInstances == Cardinality({j \in Slots : inst[j].state \in {"probing", "running"}})

IInit == inst = [i \in Slots |-> [state |-> "off", dir |-> NoDir]]

\* the operating system starts the script in slot i
ILaunch(i) ==
    /\ inst[i].state \in {"off", "refused"}
    /\ inst' = [inst EXCEPT ![i] = [state |-> "probing", dir |-> NoDir]]
    /\ UNCHANGED others_i

\* lines 450-460: count, then refuse or choose the directory
IProbe(i) ==
    /\ inst[i].state = "probing"
    /\ LET num_instances == NumInstances
       IN  inst' = [inst EXCEPT ![i] =
                      IF num_instances > InstanceCap
                      THEN [state |-> "refused", dir |-> NoDir]
                      ELSE [state |-> "running",
                            dir   |-> BaseCycleDir(num_instances)]]
    /\ UNCHANGED others_i

\* a running instance ends (the exit directive, a crash, a kill)
IExit(i) ==
    /\ inst[i].state = "running"
    /\ inst' = [inst EXCEPT ![i] = [state |-> "off", dir |-> NoDir]]
    /\ UNCHANGED others_i

INext == \E i \in Slots : ILaunch(i) \/ IProbe(i) \/ IExit(i)

\* ------------------------------------------------------------------------
\* Budget: AIManager.can_make_api_call and reset_daily_budget
\* ------------------------------------------------------------------------
\* input_cost_per_token = 0.01 / 1000 dollar, in units of 1/100000 dollar
InputCostPerToken == 1

\* output_cost_per_token = 0.03 / 1000 dollar, in the same units
OutputCostPerToken == 3

TotalCostPerToken == InputCostPerToken + OutputCostPerToken

\* daily_budget = 10 (dollars)
DailyBudgetDollars == 10

DailyBudget == DailyBudgetDollars * 100000

\* estimated_tokens = len(prompt.split()) + 100
TokenOverhead == 100

\* the last day the clock reaches
MaxDay == 2

EstimatedCost(estimated_tokens) == estimated_tokens * TotalCostPerToken

CanMakeApiCallStrict(estimated_tokens) ==
    spent_today + EstimatedCost(estimated_tokens) < DailyBudget

CanMakeApiCall(estimated_tokens) ==
    spent_today + EstimatedCost(estimated_tokens) <= DailyBudget

\* reset_daily_budget: the values of spent_today and last_reset after it
ResetDailyBudget ==
    IF today > last_reset
    THEN [spent_today |-> 0, last_reset |-> today]
    ELSE [spent_today |-> spent_today, last_reset |-> last_reset]

\* what one evaluation of the gate saw and answered
Gate(estimated_tokens) ==
    [tokens |-> estimated_tokens, spent |-> spent_today,
     ok |-> CanMakeApiCall(estimated_tokens)]

NoGate == [tokens |-> 0, spent |-> 0, ok |-> TRUE]

NoCall ==
    [kind |-> "none", gated |-> FALSE, added |-> 0, text |-> <<>>,
     answer |-> ""]

\* ------------------------------------------------------------------------
\* Texts and the two rolling logs
\* ------------------------------------------------------------------------
\* A text is the sequence of the pieces joined by "\n" that make it up; a
\* piece is known by what it is and by its length.
EmptyPiece == [tag |-> "", len |-> 0]

RECURSIVE SumLen(_)
SumLen(t) == IF t = <<>> THEN 0 ELSE t[1].len + SumLen(Tail(t))

\* len(text)
TextLen(t) == IF t = <<>> THEN 0 ELSE SumLen(t) + Len(t) - 1

\* text + "\n" + piece
AddLine(t, piece) == IF t = <<>> THEN <<EmptyPiece, piece>> ELSE Append(t, piece)

\* read_file: the content, "" when the file cannot be read
ReadFile(f) == IF f = None THEN <<>> ELSE f[1]

\* append_to_file: the file after the call
AppendToFile(f, piece) ==
    IF f = None THEN Some(<<piece>>) ELSE Some(AddLine(f[1], piece))

\* json.dump(content, file): the text written
JsonDump(v) == <<"json", v>>

\* json.load(file)
JsonLoad(c) == c[2]

\* `if len(self.notes) > 10000`
NotesThreshold == 10000

\* `if self.cycle_count % 20 == 0`
SummaryEvery == 20

\* the most pieces a log is let grow to
MaxLog == 2

\* a description and a note as a directive carries them
DescPiece == [tag |-> "description", len |-> 40]

NotePiece == [tag |-> "notes", len |-> 6000]

\* the summary as returned, and as json.dump writes it (in quotes)
SummaryPiece == [tag |-> "summary", len |-> 200]

SummaryJsonPiece == [tag |-> "summary.json", len |-> SummaryPiece.len + 2]

\* self.notes = summary when summarize returned False
NotesFalse == <<[tag |-> "False", len |-> 0]>>

LogRoom(f) == Len(ReadFile(f)) < MaxLog

\* ------------------------------------------------------------------------
\* The cycle store
\* ------------------------------------------------------------------------
\* the highest cycle id the loop is let reach
MaxCycle == 2

CycleIds == 1..MaxCycle

NoCycleDir ==
    [exists |-> FALSE, prompt |-> None, files |-> None, cmd |-> None,
     results |-> None, ask |-> None, human |-> None]

SetMax(S) == CHOOSE m \in S : \A k \in S : k <= m

\* get_latest_cycle_count
LatestCycleCount ==
    LET cycle_nums == {i \in DOMAIN store : store[i].exists}
    IN  IF cycle_nums = {} THEN 0 ELSE SetMax(cycle_nums)

\* get_prompt raises unless it can open prompt.txt
CanGetPrompt(i) ==
    i \in DOMAIN store /\ store[i].exists /\ store[i].prompt # None

\* get_prompt: prompt.txt as it is on disk, files.json loaded ([] without
\* the file), results.json as it is on disk ("" without the file)
GetPrompt(i) ==
    [kind         |-> "resume",
     prompt       |-> store[i].prompt[1],
     files_needed |-> IF store[i].files = None THEN Some(<<>>)
                      ELSE Some(JsonLoad(store[i].files[1])),
     result       |-> IF store[i].results = None THEN <<>>
                      ELSE store[i].results[1]]

\* main's first dynamic_part, "Your first task should be to ..."
DefaultInput ==
    [kind |-> "default", prompt |-> <<>>, files_needed |-> None,
     result |-> <<>>]

\* json.dumps({"result": ..., "next_prompt": ..., "files_needed": ...})
EnvelopeDropsFiles(d, output) ==
    [kind |-> "cycle", prompt |-> d.prompt, files_needed |-> None,
     result |-> output]

Envelope(d, output) ==
    [kind |-> "cycle", prompt |-> d.prompt, files_needed |-> d.files_needed,
     result |-> output]

\* ------------------------------------------------------------------------
\* Directives and responses of the backend
\* ------------------------------------------------------------------------
CmdNone == [type |-> "none", cmds |-> <<>>]

CmdStr(c) == [type |-> "str", cmds |-> <<c>>]

CmdList(cs) == [type |-> "list", cmds |-> cs]

Directive(p, c, a, f, de, no) ==
    [prompt |-> p, cmd |-> c, ask |-> a, files_needed |-> f,
     description |-> de, notes |-> no]

\* {"prompt": ...} alone
OnlyPrompt(p) == Directive(Some(p), CmdNone, None, None, None, None)

GoodDirectives ==
    {OnlyPrompt("p1"),
     Directive(Some("p2"), CmdStr("ls"), None, Some(<<"f">>),
               Some(DescPiece), Some(NotePiece)),
     Directive(Some("p2"), CmdStr("exit"), None, None, None, None),
     Directive(Some("p1"), CmdList(<<"a", "b">>), Some("task"), None, None,
               None),
     Directive(Some("p2"), CmdNone, Some("None"), None, None, None)}

\* directives with no usable prompt
BadDirectives ==
    {Directive(None, CmdStr("ls"), Some("task"), Some(<<"f">>),
               Some(DescPiece), Some(NotePiece)),
     Directive(Some(""), CmdStr("ls"), None, None, None, None),
     Directive(Some("null"), CmdNone, Some("task"), None, None, None)}

NoDirective == Directive(None, CmdNone, None, None, None, None)

\* a response is a text that json.loads accepts or not
NoResponse == [valid |-> FALSE, d |-> NoDirective]

Responses ==
    {NoResponse} \cup {[valid |-> TRUE, d |-> x] : x \in GoodDirectives \cup BadDirectives}

\* the responses of the budget specification: a directive that is a prompt
\* and nothing else, the directives with no usable prompt, or no JSON
BudgetResponses ==
    {NoResponse, [valid |-> TRUE, d |-> OnlyPrompt("p1")]}
    \cup {[valid |-> TRUE, d |-> x] : x \in BadDirectives}

\* `not next_prompt or next_prompt == "" or next_prompt == "null"`
PromptIsEmptyNoneOnly(d) == d.prompt = None

PromptIsEmpty(d) ==
    d.prompt = None \/ d.prompt = Some("") \/ d.prompt = Some("null")

\* `if files_to_read:`
FilesTruthy(f) == f # None /\ f # Some(<<>>)

\* `if description:` and `if notes:`
TextTruthy(v) == v # None /\ v[1].len > 0

\* `if command_to_execute:`
CmdTruthy(c) == c.type # "none" /\ c.cmds # <<>> /\ c # CmdStr("")

\* `command_to_execute == "exit"`
CmdIsExit(c) == c = CmdStr("exit")

\* `human_task and human_task != "" and human_task != "None"`
AskIsSetLoose(a) == a # None /\ a # Some("")

AskIsSet(a) == a # None /\ a # Some("") /\ a # Some("None")

\* ------------------------------------------------------------------------
\* Exceptions and the except branch of main
\* ------------------------------------------------------------------------
NoError == [src |-> "none", has429 |-> FALSE, hint |-> None]

\* raise Exception("API call limit reached for today.")
BudgetError == [src |-> "budget", has429 |-> FALSE, hint |-> None]

\* raise Exception("Prompt is empty")
PromptError == [src |-> "prompt", has429 |-> FALSE, hint |-> None]

\* FileNotFoundError out of get_prompt
ResumeError == [src |-> "resume", has429 |-> FALSE, hint |-> None]

\* json.JSONDecodeError: "...: line L column C (char N)", whose numbers may
\* hold the digits 429
JsonErrors == {[src |-> "json", has429 |-> b, hint |-> None] : b \in BOOLEAN}

\* The characters that follow "Please try again in " up to the next "s." in
\* the message of an error of the backend: "2.50s.", "0s.", "20ms."
HintTexts == {<<"2", ".", "5", "0">>, <<"0">>, <<"2", "0", "m">>}

\* an error of the backend: whether its text holds "429", and the hint that
\* a rate-limit error (429) may carry
ApiErrors ==
    {[src |-> "api", has429 |-> FALSE, hint |-> None],
     [src |-> "api", has429 |-> TRUE, hint |-> None]}
    \cup {[src |-> "api", has429 |-> TRUE, hint |-> Some(t)] : t \in HintTexts}

Digits == {"0", "1", "2", "3", "4", "5", "6", "7", "8", "9"}

DigitValue(c) ==
    CASE c = "0" -> 0 [] c = "1" -> 1 [] c = "2" -> 2 [] c = "3" -> 3
      [] c = "4" -> 4 [] c = "5" -> 5 [] c = "6" -> 6 [] c = "7" -> 7
      [] c = "8" -> 8 [] c = "9" -> 9

\* float(t) raises ValueError unless t is a number: here digits with at most
\* one point
IsFloatLiteral(t) ==
    /\ \A i \in 1..Len(t) : t[i] \in Digits \cup {"."}
    /\ Cardinality({i \in 1..Len(t) : t[i] = "."}) <= 1
    /\ \E i \in 1..Len(t) : t[i] \in Digits

RECURSIVE IntOf(_)
IntOf(ds) ==
    IF ds = <<>> THEN 0
    ELSE 10 * IntOf(SubSeq(ds, 1, Len(ds) - 1)) + DigitValue(ds[Len(ds)])

\* float(t) in hundredths (further decimals dropped)
Float100(t) ==
    LET dot == IF \E i \in 1..Len(t) : t[i] = "."
               THEN CHOOSE i \in 1..Len(t) : t[i] = "."
               ELSE Len(t) + 1
        ip  == SubSeq(t, 1, dot - 1)
        fp  == SubSeq(t, dot + 1, Len(t))
    IN  100 * IntOf(ip)
        + (IF Len(fp) >= 1 THEN 10 * DigitValue(fp[1]) ELSE 0)
        + (IF Len(fp) >= 2 THEN DigitValue(fp[2]) ELSE 0)

\* sleep(60)
BackoffSeconds == 60

Backoff == BackoffSeconds * 100

\* lines 486-498: what the branch sleeps in all, in 1/100 s, when it does
\* not raise
HandlerSleep(e) ==
    IF e.has429 /\ e.hint # None
    THEN (IF Float100(e.hint[1]) > 0 THEN Float100(e.hint[1]) ELSE Backoff)
         + Backoff
    ELSE Backoff

\* line 488 raises ValueError
HandlerRaises(e) == e.has429 /\ e.hint # None /\ ~IsFloatLiteral(e.hint[1])

\* ------------------------------------------------------------------------
\* The process of main()
\* ------------------------------------------------------------------------
NoAttempt == [id |-> 0, dyn |-> DefaultInput]

\* the memory of a process that has not run yet
FreshMemory ==
    /\ cycle_count = 0
    /\ dynamic_part = DefaultInput
    /\ spent_today = 0
    /\ last_reset = 0
    /\ notes = <<>>
    /\ task_data = NoResponse
    /\ command_output = <<>>
    /\ err = NoError
    /\ slept = 0
    /\ attempt = NoAttempt
    /\ effects = {}
    /\ gate = NoGate
    /\ lastCall = NoCall

MInit ==
    /\ pc = "start"
    /\ FreshMemory
    /\ store = [i \in CycleIds |-> NoCycleDir]
    /\ descriptions_file = None
    /\ notes_file = None
    /\ today = 0

\* execute_cycle is left: its locals are gone, and so is the history of the
\* attempt
AttemptOver ==
    /\ task_data' = NoResponse
    /\ command_output' = <<>>
    /\ attempt' = NoAttempt
    /\ effects' = {}
    /\ gate' = NoGate
    /\ lastCall' = NoCall

\* AIManager.__init__ and lines 464-470 of main: the counter from the store,
\* then the first input, resumed from the store when the highest id is above
\* 1.  get_latest_cycle_prompt runs outside the try of the loop: what it
\* raises ends the process.
Startup ==
    /\ pc = "start"
    /\ spent_today' = 0
    /\ last_reset' = today
    /\ notes' = <<>>
    /\ IF LatestCycleCount > 1
       THEN /\ cycle_count' = LatestCycleCount - 1
            /\ IF CanGetPrompt(LatestCycleCount - 1)
               THEN /\ dynamic_part' = GetPrompt(LatestCycleCount - 1)
                    /\ pc' = "loop"
                    /\ err' = NoError
               ELSE /\ dynamic_part' = DefaultInput
                    /\ pc' = "crashed"
                    /\ err' = ResumeError
       ELSE /\ cycle_count' = LatestCycleCount
            /\ dynamic_part' = DefaultInput
            /\ pc' = "loop"
            /\ err' = NoError
    /\ UNCHANGED <<task_data, command_output, slept, diskvars, today, histvars>>
    /\ UNCHANGED others_m

\* execute_cycle, lines 319-320: reset_daily_budget and
\* create_cycle_directory (makedirs keeps what the directory holds)
BeginCycle ==
    /\ pc = "loop"
    /\ cycle_count + 1 \in DOMAIN store
    /\ spent_today' = ResetDailyBudget.spent_today
    /\ last_reset' = ResetDailyBudget.last_reset
    /\ cycle_count' = cycle_count + 1
    /\ store' = [store EXCEPT ![cycle_count + 1].exists = TRUE]
    /\ attempt' = [id |-> cycle_count + 1, dyn |-> dynamic_part]
    /\ effects' = {}
    /\ err' = NoError
    /\ pc' = "generate"
    /\ UNCHANGED <<dynamic_part, notes, task_data, command_output, slept,
                   descriptions_file, notes_file, today, gate, lastCall>>
    /\ UNCHANGED others_m

\* generate_task_with_gpt4 when the gate refuses: raise Exception("API call
\* limit reached for today.").  PW: the word counts of the composed prompt.
GenerateDenied(PW) ==
    /\ pc = "generate"
    /\ \E words \in PW :
          /\ ~Gate(words + TokenOverhead).ok
          /\ gate' = Gate(words + TokenOverhead)
    /\ notes' = ReadFile(notes_file)
    /\ err' = BudgetError
    /\ pc' = "except"
    /\ UNCHANGED <<cycle_count, dynamic_part, spent_today, last_reset,
                   task_data, command_output, slept, diskvars, today,
                   attempt, effects, lastCall>>
    /\ UNCHANGED others_m

\* generate_task_with_gpt4 when the call to the backend raises
GenerateRaises(PW) ==
    /\ pc = "generate"
    /\ \E words \in PW :
          /\ Gate(words + TokenOverhead).ok
          /\ gate' = Gate(words + TokenOverhead)
    /\ notes' = ReadFile(notes_file)
    /\ \E e \in ApiErrors : err' = e
    /\ pc' = "except"
    /\ UNCHANGED <<cycle_count, dynamic_part, spent_today, last_reset,
                   task_data, command_output, slept, diskvars, today,
                   attempt, effects, lastCall>>
    /\ UNCHANGED others_m

\* generate_task_with_gpt4 when the backend answers: the cost of the words of
\* the prompt and of the response is added to spent_today.  RW: the word
\* counts of a response, R: the responses.
GenerateReturns(PW, RW, R) ==
    /\ pc = "generate"
    /\ \E words \in PW, rwords \in RW :
          /\ Gate(words + TokenOverhead).ok
          /\ gate' = Gate(words + TokenOverhead)
          /\ spent_today' = spent_today + (rwords + words) * TotalCostPerToken
          /\ lastCall' = [kind |-> "generate", gated |-> TRUE,
                          added |-> (rwords + words) * TotalCostPerToken,
                          text |-> <<>>, answer |-> ""]
    /\ notes' = ReadFile(notes_file)
    /\ \E r \in R :
          /\ TextTruthy(r.d.description) => LogRoom(descriptions_file)
          /\ TextTruthy(r.d.notes) => LogRoom(notes_file)
          /\ task_data' = r
    /\ pc' = "parse"
    /\ UNCHANGED <<cycle_count, dynamic_part, last_reset, command_output, err,
                   slept, diskvars, today, attempt, effects>>
    /\ UNCHANGED others_m

\* lines 324-335: json.loads raises, or the prompt is missing or empty
ParseFails ==
    /\ pc = "parse"
    /\ \/ /\ ~task_data.valid
          /\ \E e \in JsonErrors : err' = e
       \/ /\ task_data.valid
          /\ PromptIsEmpty(task_data.d)
          /\ err' = PromptError
    /\ pc' = "except"
    /\ UNCHANGED <<cycle_count, dynamic_part, spent_today, last_reset, notes,
                   task_data, command_output, slept, diskvars, today,
                   histvars>>
    /\ UNCHANGED others_m

\* lines 337-339: prompt.txt, and files.json when files are asked for
PersistPrompt ==
    /\ pc = "parse"
    /\ task_data.valid
    /\ ~PromptIsEmpty(task_data.d)
    /\ LET d == task_data.d
       IN  /\ store' = [store EXCEPT
                  ![cycle_count].prompt = Some(JsonDump(d.prompt[1])),
                  ![cycle_count].files =
                      IF FilesTruthy(d.files_needed)
                      THEN Some(JsonDump(d.files_needed[1]))
                      ELSE @]
           /\ effects' = effects \cup {"prompt.txt"}
                  \cup (IF FilesTruthy(d.files_needed) THEN {"files.json"}
                        ELSE {})
    /\ pc' = "describe"
    /\ UNCHANGED <<cycle_count, dynamic_part, spent_today, last_reset, notes,
                   task_data, command_output, err, slept, descriptions_file,
                   notes_file, today, attempt, gate, lastCall>>
    /\ UNCHANGED others_m

\* what the call of summarize brings: a JSON object with a summary, an
\* empty text, a text that is no JSON, a JSON object without a summary, or
\* an exception out of the call to the backend
SummarizeOutcomes == {"summary", "empty", "nojson", "nofield", "raise"}

\* summarize, lines 300-314: the summary, or False
Summarize(o) == IF o = "summary" THEN "summary" ELSE "False"

\* `if summary: self.write_to_file('', ..., summary)`: the log after it
FileAlwaysReplaced(appended, o) == Some(<<SummaryJsonPiece>>)

FileAfterSummary(appended, o) ==
    IF Summarize(o) = "summary" THEN Some(<<SummaryJsonPiece>>) ELSE appended

\* `if len(self.notes) > 10000`
NotesTooLongFrom(t) == TextLen(t) >= NotesThreshold

NotesTooLong(t) == TextLen(t) > NotesThreshold

\* lines 341-353: the description is appended; on every 20th cycle id the
\* whole log goes to summarize and the summary, if any, replaces it
Describe ==
    /\ pc = "describe"
    /\ LET d == task_data.d
           appended == AppendToFile(descriptions_file, d.description[1])
       IN  IF ~TextTruthy(d.description)
           THEN /\ pc' = "notes"
                /\ UNCHANGED <<descriptions_file, effects, lastCall, err>>
           ELSE IF cycle_count % SummaryEvery # 0
           THEN /\ descriptions_file' = appended
                /\ effects' = effects \cup {"descriptions.txt"}
                /\ pc' = "notes"
                /\ UNCHANGED <<lastCall, err>>
           ELSE \E o \in SummarizeOutcomes :
                /\ effects' = effects \cup {"descriptions.txt",
                                            "summarize.descriptions"}
                /\ IF o = "raise"
                   THEN /\ descriptions_file' = appended
                        /\ \E e \in ApiErrors : err' = e
                        /\ pc' = "except"
                        /\ UNCHANGED lastCall
                   ELSE /\ descriptions_file' = FileAfterSummary(appended, o)
                        /\ lastCall' = [kind |-> "summarize",
                                        gated |-> FALSE, added |-> 0,
                                        text |-> ReadFile(appended),
                                        answer |-> o]
                        /\ pc' = "notes"
                        /\ UNCHANGED err
    /\ UNCHANGED <<cycle_count, dynamic_part, spent_today, last_reset, notes,
                   task_data, command_output, slept, store, notes_file,
                   today, attempt, gate>>
    /\ UNCHANGED others_m

\* lines 355-362: the notes are appended to the file and to self.notes; when
\* self.notes is longer than 10000 characters it goes to summarize
Notes ==
    /\ pc = "notes"
    /\ LET d == task_data.d
           appended == AppendToFile(notes_file, d.notes[1])
           added == AddLine(notes, d.notes[1])
       IN  IF ~TextTruthy(d.notes)
           THEN /\ pc' = "act"
                /\ UNCHANGED <<notes_file, notes, effects, lastCall, err>>
           ELSE IF ~NotesTooLong(added)
           THEN /\ notes_file' = appended
                /\ notes' = added
                /\ effects' = effects \cup {"notes.txt"}
                /\ pc' = "act"
                /\ UNCHANGED <<lastCall, err>>
           ELSE \E o \in SummarizeOutcomes :
                /\ effects' = effects \cup {"notes.txt", "summarize.notes"}
                /\ IF o = "raise"
                   THEN /\ notes_file' = appended
                        /\ notes' = added
                        /\ \E e \in ApiErrors : err' = e
                        /\ pc' = "except"
                        /\ UNCHANGED lastCall
                   ELSE /\ notes_file' = FileAfterSummary(appended, o)
                        /\ notes' = IF Summarize(o) = "summary"
                                    THEN <<SummaryPiece>> ELSE NotesFalse
                        /\ lastCall' = [kind |-> "summarize",
                                        gated |-> FALSE, added |-> 0,
                                        text |-> added, answer |-> o]
                        /\ pc' = "act"
                        /\ UNCHANGED err
    /\ UNCHANGED <<cycle_count, dynamic_part, spent_today, last_reset,
                   task_data, command_output, slept, store,
                   descriptions_file, today, attempt, gate>>
    /\ UNCHANGED others_m

\* what a command does, as run_command sees it at line 411: the returncode
\* (None after a timeout that left the process running) and the two streams
\* as read ("" after a timeout)
RunOutcomes ==
    {[rc |-> Some(0), out |-> [len |-> 500, bad |-> 0], err |-> EmptyStr],
     [rc |-> None, out |-> EmptyStr, err |-> EmptyStr]}

\* run_command: the report
RunCommand(o) == Report(o.rc, o.out, o.err)

\* lines 366-369: no command to run
ActNone ==
    /\ pc = "act"
    /\ ~CmdTruthy(task_data.d.cmd)
    /\ command_output' = <<>>
    /\ pc' = "ask"
    /\ UNCHANGED <<cycle_count, dynamic_part, spent_today, last_reset, notes,
                   task_data, err, slept, diskvars, today, histvars>>
    /\ UNCHANGED others_m

\* lines 370-371: exit(0).  SystemExit is no Exception: the except branch of
\* main does not catch it and the process ends.
ActExit ==
    /\ pc = "act"
    /\ CmdTruthy(task_data.d.cmd)
    /\ CmdIsExit(task_data.d.cmd)
    /\ command_output' = <<>>
    /\ pc' = "exited"
    /\ UNCHANGED <<cycle_count, dynamic_part, spent_today, last_reset, notes,
                   task_data, err, slept, diskvars, today, histvars>>
    /\ UNCHANGED others_m

\* lines 373-377 and execute_server_task: cmd.json, the commands one after
\* the other, results.json.  O: what a command may do.
ActRun(O) ==
    /\ pc = "act"
    /\ CmdTruthy(task_data.d.cmd)
    /\ ~CmdIsExit(task_data.d.cmd)
    /\ LET cmd == task_data.d.cmd
       IN  \E outs \in [1..Len(cmd.cmds) -> O] :
              LET reports == [i \in 1..Len(cmd.cmds) |-> RunCommand(outs[i])]
              IN  /\ command_output' = reports
                  /\ store' = [store EXCEPT
                        ![cycle_count].cmd = Some(JsonDump(cmd)),
                        ![cycle_count].results = Some(JsonDump(reports))]
    /\ effects' = effects \cup {"cmd.json", "run", "results.json"}
    /\ pc' = "ask"
    /\ UNCHANGED <<cycle_count, dynamic_part, spent_today, last_reset, notes,
                   task_data, err, slept, descriptions_file, notes_file,
                   today, attempt, gate, lastCall>>
    /\ UNCHANGED others_m

\* lines 379-381: ask.json is written and the wait for results.txt begins
AskHuman ==
    /\ pc = "ask"
    /\ AskIsSet(task_data.d.ask)
    /\ store' = [store EXCEPT
          ![cycle_count].ask = Some(JsonDump(task_data.d.ask[1]))]
    /\ effects' = effects \cup {"ask.json", "wait"}
    /\ pc' = "wait"
    /\ UNCHANGED <<cycle_count, dynamic_part, spent_today, last_reset, notes,
                   task_data, command_output, err, slept, descriptions_file,
                   notes_file, today, attempt, gate, lastCall>>
    /\ UNCHANGED others_m

\* wait_for_human_input finds results.txt; lines 384-386 return the envelope
WaitForHuman ==
    /\ pc = "wait"
    /\ store[cycle_count].human # None
    /\ dynamic_part' =
          Envelope(task_data.d, <<[human |-> store[cycle_count].human[1]]>>)
    /\ pc' = "loop"
    /\ AttemptOver
    /\ UNCHANGED <<cycle_count, spent_today, last_reset, notes, err, slept,
                   diskvars, today>>
    /\ UNCHANGED others_m

\* lines 384-386 without an ask: the envelope is returned to main
Return ==
    /\ pc = "ask"
    /\ ~AskIsSet(task_data.d.ask)
    /\ dynamic_part' = Envelope(task_data.d, command_output)
    /\ pc' = "loop"
    /\ AttemptOver
    /\ UNCHANGED <<cycle_count, spent_today, last_reset, notes, err, slept,
                   diskvars, today>>
    /\ UNCHANGED others_m

\* the operator answers an ask: results.txt appears beside an ask.json
HumanAnswers ==
    /\ \E i \in DOMAIN store :
          /\ store[i].ask # None
          /\ store[i].human = None
          /\ store' = [store EXCEPT ![i].human = Some("answer")]
          \* history: the answer arrived while this attempt was waiting for it
          /\ effects' = IF pc = "wait" /\ i = cycle_count
                            THEN effects \cup {"answered"} ELSE effects
    /\ UNCHANGED <<memvars, descriptions_file, notes_file, today>>
    /\ UNCHANGED <<attempt, gate, lastCall>>
    /\ UNCHANGED others_m

\* the except branch of main, lines 482-498: the counter is taken back, the
\* hint is read, and the process sleeps.  float() of a hint that is no number
\* raises inside the branch, which nothing catches.
HandleError ==
    /\ pc = "except"
    /\ cycle_count' = cycle_count - 1
    /\ IF HandlerRaises(err)
       THEN /\ pc' = "crashed"
            /\ err' = [err EXCEPT !.src = "handler"]
            /\ UNCHANGED slept
       ELSE /\ pc' = "sleep"
            /\ slept' = HandlerSleep(err)
            /\ UNCHANGED err
    /\ UNCHANGED <<dynamic_part, spent_today, last_reset, notes, task_data,
                   command_output, diskvars, today, histvars>>
    /\ UNCHANGED others_m

\* the sleeps of the except branch are over: back to `while True`
WakeUp ==
    /\ pc = "sleep"
    /\ pc' = "loop"
    /\ err' = NoError
    /\ slept' = 0
    /\ AttemptOver
    /\ UNCHANGED <<cycle_count, dynamic_part, spent_today, last_reset, notes,
                   diskvars, today>>
    /\ UNCHANGED others_m

\* the process is ended from outside, or has ended, and the script is started
\* again: nothing of its memory is kept, the disk is.
Restart ==
    /\ pc # "start"
    /\ pc' = "start"
    /\ cycle_count' = 0
    /\ dynamic_part' = DefaultInput
    /\ spent_today' = 0
    /\ last_reset' = 0
    /\ notes' = <<>>
    /\ task_data' = NoResponse
    /\ command_output' = <<>>
    /\ err' = NoError
    /\ slept' = 0
    /\ attempt' = NoAttempt
    /\ effects' = {}
    /\ gate' = NoGate
    /\ lastCall' = NoCall
    /\ UNCHANGED <<diskvars, today>>
    /\ UNCHANGED others_m

\* midnight passes
Tick ==
    /\ today < MaxDay
    /\ today' = today + 1
    /\ UNCHANGED <<memvars, diskvars, histvars>>
    /\ UNCHANGED others_m

\* word counts of the composed prompt and of a response
PromptWords == {49900}

RespWords == {100}

Next ==
    \/ Startup
    \/ BeginCycle
    \/ GenerateDenied(PromptWords)
    \/ GenerateRaises(PromptWords)
    \/ GenerateReturns(PromptWords, RespWords, Responses)
    \/ ParseFails
    \/ PersistPrompt
    \/ Describe
    \/ Notes
    \/ ActNone
    \/ ActExit
    \/ ActRun(RunOutcomes)
    \/ AskHuman
    \/ WaitForHuman
    \/ Return
    \/ HumanAnswers
    \/ HandleError
    \/ WakeUp
    \/ Restart

\* the budget specification: the clock moves, the token counts vary, the
\* backend answers with one directive or with no JSON
BudgetPromptWords == {24900, 49900}

BudgetRespWords == {100, 4100}

NextBudget ==
    \/ Startup
    \/ BeginCycle
    \/ GenerateDenied(BudgetPromptWords)
    \/ GenerateRaises(BudgetPromptWords)
    \/ GenerateReturns(BudgetPromptWords, BudgetRespWords, BudgetResponses)
    \/ ParseFails
    \/ PersistPrompt
    \/ Describe
    \/ Notes
    \/ ActNone
    \/ Return
    \/ HandleError
    \/ WakeUp
    \/ Restart
    \/ Tick

\* ------------------------------------------------------------------------
\* Prompt assembly: generate_task_with_gpt4, lines 113-172
\* ------------------------------------------------------------------------
\* `len(prompt) > 100000`, `len(dynamic_part + filetext) > 100000`
PromptCeiling == 100000

\* descriptions[-1000:]
DescTail == 1000

\* dpjson["results"][0:100000 - fileslen - 1000]
TruncMargin == 1000

\* the paths a dynamic input may name under files_needed
FileNames == {"f", "g"}

\* what open(file, 'r') finds: no readable file, or a text of len characters
DiskFiles ==
    {[readable |-> FALSE, len |-> 0], [readable |-> TRUE, len |-> 300],
     [readable |-> TRUE, len |-> PromptCeiling]}

FileLists == {None, Some(<<>>), Some(<<"f">>), Some(<<"f", "g">>)}

\* a result of n characters ("" when n = 0)
ResultText(n) == IF n = 0 THEN <<>> ELSE <<[chars |-> n]>>

ResultChars(r) == IF r = <<>> THEN 0 ELSE r[1].chars

\* lengths of the result a dynamic input carries: none, the report of a
\* command, the reports of a long list of commands or a long results.txt
ResultLens == {0, 4000, PromptCeiling + 20000}

\* the dynamic inputs main hands to execute_cycle: the first-run text, what
\* execute_cycle returned (line 384), what get_prompt returned (line 272)
DynamicInputs ==
    {DefaultInput}
    \cup {Envelope(Directive(Some("p1"), CmdNone, None, f, None, None),
                   ResultText(n)) : f \in FileLists, n \in ResultLens}
    \cup {[kind |-> "resume", prompt |-> JsonDump("p1"), files_needed |-> f,
           result |-> ResultText(n)] :
             f \in FileLists \ {None}, n \in ResultLens}

\* the text under construction: whether "\n= Prev cycles =" + descriptions
\* + "==\n" stands before the input, the length of that tail of the
\* descriptions, the input, what became of each path in it, and whether the
\* results were cut
NoInline == [f \in FileNames |-> "path"]

PlainText(dyn) ==
    [framed |-> FALSE, desc |-> 0, obj |-> dyn, inl |-> NoInline,
     cut |-> FALSE]

\* line 121
Frame(dyn, descriptions) ==
    [PlainText(dyn) EXCEPT !.framed = TRUE,
                           !.desc = Min(descriptions, DescTail)]

\* the files a JSON input names
FilesOf(o) == IF o.files_needed = None THEN <<>> ELSE o.files_needed[1]

\* "File too large to include in prompt."
Placeholder == [readable |-> TRUE, len |-> 36]

\* characters the text has more than its input for the files spliced in:
\* ":" and the content or the placeholder after the path
RECURSIVE SplicedChars(_, _, _)
SplicedChars(t, fs, disk) ==
    IF fs = <<>> THEN 0
    ELSE (CASE t.inl[fs[1]] = "path" -> 0
            [] t.inl[fs[1]] = "content" -> 1 + disk[fs[1]].len
            [] t.inl[fs[1]] = "placeholder" -> 1 + Placeholder.len)
         + SplicedChars(t, Tail(fs), disk)

\* the results after line 166: the head that is kept and the marker
CutChars(o) ==
    Min(ResultChars(o.result),
        PromptCeiling - Len(FilesOf(o)) - TruncMargin) + 22

\* len(dynamic_part): the frame (16 + 3 characters around the tail of the
\* descriptions), the input (the first-run text has about 200 characters, a
\* JSON object about 60 beside its result and its paths) and what was
\* spliced in
TextChars(t, disk) ==
    (IF t.framed THEN 19 + t.desc ELSE 0)
    + (IF t.obj.kind = "default" THEN 200
       ELSE 60 + 5 * Len(FilesOf(t.obj))
            + (IF t.cut THEN CutChars(t.obj) ELSE ResultChars(t.obj.result)))
    + (IF t.obj.kind = "default" THEN 0
       ELSE SplicedChars(t, FilesOf(t.obj), disk))

\* json.loads(dynamic_part): the object, or None where it raises.  A text
\* that begins "\n= Prev cycles =" is no JSON, nor is the first-run text.
JsonLoads(t) ==
    IF ~t.framed /\ t.obj.kind # "default" THEN Some(t.obj) ELSE None

\* jsonf.get("files_needed") is truthy
HasFilesNeeded(o) == FilesTruthy(o.files_needed)

\* dpjson.get("results"): get_prompt writes the key "results", execute_cycle
\* the key "result"
GetResults(o) == IF o.kind = "resume" THEN o.result ELSE <<>>

\* lines 140-146: the files in list order; open() of a file that cannot be
\* read raises, which ends the loop (line 148) with the text as it is
RECURSIVE InlineFiles(_, _, _)
InlineFiles(t, fs, disk) ==
    IF fs = <<>> THEN t
    ELSE IF ~disk[fs[1]].readable THEN t
    ELSE LET how == IF TextChars(t, disk) + disk[fs[1]].len > PromptCeiling
                    THEN "placeholder" ELSE "content"
         IN  InlineFiles([t EXCEPT !.inl[fs[1]] = how], Tail(fs), disk)

\* len(prompt), prompt = f"{static_part} {dynamic_part}"
PromptChars(static, t, disk) == static + 1 + TextChars(t, disk)

AInit ==
    /\ apc = "idle"
    /\ ain = [dyn |-> DefaultInput, descriptions |-> 0, static |-> 0,
              disk |-> [f \in FileNames |-> [readable |-> FALSE, len |-> 0]]]
    /\ atext = PlainText(DefaultInput)

\* lines 81-121: generate_task_with_gpt4 is called with a dynamic input; the
\* static part is put together and the tail of the descriptions is set
\* before the input
AFrame ==
    /\ apc = "idle"
    /\ \E dyn \in DynamicInputs, descriptions \in {0, 5000},
          static \in {3000}, disk \in [FileNames -> DiskFiles] :
          /\ ain' = [dyn |-> dyn, descriptions |-> descriptions,
                     static |-> static, disk |-> disk]
          /\ atext' = Frame(dyn, descriptions)
    /\ apc' = "framed"
    /\ UNCHANGED others_a

\* lines 134-151: the try block that replaces each path by path:content
AInline ==
    /\ apc = "framed"
    /\ LET jsonf == JsonLoads(atext)
       IN  atext' = IF jsonf # None /\ HasFilesNeeded(jsonf[1])
                    THEN InlineFiles(atext, FilesOf(jsonf[1]), ain.disk)
                    ELSE atext
    /\ apc' = "inlined"
    /\ UNCHANGED <<ain>>
    /\ UNCHANGED others_a

\* lines 153-168: the prompt is composed; above the ceiling the text is
\* parsed again, outside any try, and the results are cut
ACompose ==
    /\ apc = "inlined"
    /\ IF PromptChars(ain.static, atext, ain.disk) > PromptCeiling
       THEN LET dpjson == JsonLoads(atext)
            IN  IF dpjson = None
                THEN /\ apc' = "raised"
                     /\ UNCHANGED atext
                ELSE /\ apc' = "composed"
                     /\ atext' = IF GetResults(dpjson[1]) # <<>>
                                 THEN [atext EXCEPT !.cut = TRUE]
                                 ELSE atext
       ELSE /\ apc' = "composed"
            /\ UNCHANGED atext
    /\ UNCHANGED <<ain>>
    /\ UNCHANGED others_a

\* lines 174-195: the text goes to the backend as the user message
ACall ==
    /\ apc = "composed"
    /\ apc' = "called"
    /\ UNCHANGED <<ain, atext>>
    /\ UNCHANGED others_a

\* the error leaves execute_cycle; main takes the counter back, sleeps and
\* calls execute_cycle with the same dynamic_part (lines 482-498, 475)
ARetry ==
    /\ apc = "raised"
    /\ atext' = Frame(ain.dyn, ain.descriptions)
    /\ apc' = "framed"
    /\ UNCHANGED <<ain>>
    /\ UNCHANGED others_a

\* the cycle goes on, and a later cycle brings another input
ADone ==
    /\ apc = "called"
    /\ apc' = "idle"
    /\ UNCHANGED <<ain, atext>>
    /\ UNCHANGED others_a

ANext == AFrame \/ AInline \/ ACompose \/ ACall \/ ARetry \/ ADone

\* ------------------------------------------------------------------------
\* execute_server_task, lines 249-257
\* ------------------------------------------------------------------------
\* the values of `cmd` that reach execute_server_task: a command, or a list
Tasks ==
    {CmdStr("a"), CmdList(<<"a">>), CmdList(<<"a", "b">>),
     CmdList(<<"a", "a">>), CmdList(<<"b", "a", "c">>)}

\* what a command does, as RunOutcomes: it succeeds, fails with a code that
\* is not 0, or is left running after the timeout
TaskOutcomes ==
    RunOutcomes
    \cup {[rc |-> Some(1), out |-> EmptyStr, err |-> [len |-> 500, bad |-> 0]]}

\* `for t in task` when the task is a list, else the task itself
CommandsOf(t) == t.cmds

\* "\n".join(result): the reports, in the order of the list
LastOnly(reports) == <<reports[Len(reports)]>>

Joined(reports) == reports

TInit ==
    /\ tpc = "idle"
    /\ task = CmdNone
    /\ tdone = <<>>
    /\ tresult = <<>>
    /\ treturn = <<>>

\* line 250: the call, result = []
TBegin ==
    /\ tpc \in {"idle", "returned"}
    /\ \E t \in Tasks : task' = t
    /\ tdone' = <<>>
    /\ tresult' = <<>>
    /\ treturn' = <<>>
    /\ tpc' = "loop"
    /\ UNCHANGED others_t

\* lines 252-255: result.append(await run_command(t)) for the next command,
\* from the call to its return
TRunNext ==
    /\ tpc = "loop"
    /\ Len(tresult) < Len(CommandsOf(task))
    /\ LET t == CommandsOf(task)[Len(tresult) + 1]
       IN  \E o \in TaskOutcomes :
              /\ tdone' = Append(tdone, [cmd |-> t, did |-> o])
              /\ tresult' = Append(tresult,
                                   [cmd |-> t, report |-> RunCommand(o)])
    /\ UNCHANGED <<tpc, task, treturn>>
    /\ UNCHANGED others_t

\* line 257
TReturn ==
    /\ tpc = "loop"
    /\ Len(tresult) = Len(CommandsOf(task))
    /\ treturn' = Joined(tresult)
    /\ tpc' = "returned"
    /\ UNCHANGED <<task, tdone, tresult>>
    /\ UNCHANGED others_t

TNext == TBegin \/ TRunNext \/ TReturn

\* ------------------------------------------------------------------------
\* The two logs over the cycles around a multiple of 20
\* ------------------------------------------------------------------------
\* the store of a process that ran its first 19 cycles and was stopped
LogCycleIds == 1..(SummaryEvery + 1)

PastCycleDir == [NoCycleDir EXCEPT !.exists = TRUE,
                                   !.prompt = Some(JsonDump("p1"))]

\* the notes a directive may carry
LogNotePieces ==
    {[tag |-> "notes", len |-> n] :
        n \in {NotePiece.len, NotesThreshold - 1, NotesThreshold,
               NotesThreshold + 1}}

\* directives with or without a description and notes, and nothing to run
LogResponses ==
    {[valid |-> TRUE,
      d |-> Directive(Some("p1"), CmdNone, None, None, de, no)] :
        de \in {None, Some(DescPiece)},
        no \in {None} \cup {Some(n) : n \in LogNotePieces}}

MLogsInit ==
    /\ pc = "start"
    /\ FreshMemory
    /\ store = [i \in LogCycleIds |->
                  IF i < SummaryEvery THEN PastCycleDir ELSE NoCycleDir]
    /\ descriptions_file = None
    /\ notes_file = None
    /\ today = 0

InitLogs == XInit /\ IInit /\ MLogsInit /\ AInit /\ TInit

NextLogs ==
    \/ Startup
    \/ BeginCycle
    \/ GenerateReturns(PromptWords, RespWords, LogResponses)
    \/ PersistPrompt
    \/ Describe
    \/ Notes
    \/ ActNone
    \/ Return
    \/ HandleError
    \/ WakeUp
    \/ Restart

\* the specification of the action branches: the backend answers with
\* directives that run commands, ask the human, both or neither, and that
\* carry no description and no notes
ActResponses ==
    {[valid |-> TRUE, d |-> x] :
        x \in {OnlyPrompt("p1"),
               Directive(Some("p2"), CmdStr("ls"), None, Some(<<"f">>), None,
                         None),
               Directive(Some("p1"), CmdList(<<"a", "b">>), Some("task"),
                         None, None, None),
               Directive(Some("p2"), CmdNone, Some("None"), None, None,
                         None)}}

NextAct ==
    \/ Startup
    \/ BeginCycle
    \/ GenerateReturns(PromptWords, RespWords, ActResponses)
    \/ PersistPrompt
    \/ Describe
    \/ Notes
    \/ ActNone
    \/ ActRun(RunOutcomes)
    \/ AskHuman
    \/ WaitForHuman
    \/ Return
    \/ HumanAnswers
    \/ Restart

Init == XInit /\ IInit /\ MInit /\ AInit /\ TInit

Spec == Init /\ [][Next]_vars

SpecBudget == Init /\ [][NextBudget]_vars

SpecAct == Init /\ [][NextAct]_vars

SpecExec == Init /\ [][XNext]_vars

SpecInst == Init /\ [][INext]_vars

SpecPrompt == Init /\ [][ANext]_vars

SpecTask == Init /\ [][TNext]_vars

SpecLogs == InitLogs /\ [][NextLogs]_vars

\* ------------------------------------------------------------------------
\* Properties
\* ------------------------------------------------------------------------

\* C1 (SpecExec): a command that exceeds the timeout yields a report whose
\* status is the timed-out one and names the pid of the process, which is
\* left running (not killed).
C1_TimeoutReported ==
    (xpc = "done" /\ timedout) =>
        /\ result.line.status = "timeout"
        /\ result.line.pid = Some(process.pid)
        /\ ~process.killed

\* C2 (Spec): past the instance check the process ends only through the
\* exit directive: it never ends on an exception, be it raised while
\* resuming, inside execute_cycle or inside the except branch of main.
C2_OnlyExitTerminates == pc \in {"exited", "crashed"} => pc = "exited"

\* C3 (Spec): after an error whose text holds "Please try again in N s."
\* with N > 0 the loop sleeps N seconds in all, and the next attempt has the
\* cycle id and the input of the failed one.
C3_SleepsForHint ==
    (/\ pc = "sleep"
     /\ err.hint # None
     /\ IsFloatLiteral(err.hint[1])
     /\ Float100(err.hint[1]) > 0) =>
        /\ slept = Float100(err.hint[1])
        /\ cycle_count + 1 = attempt.id
        /\ dynamic_part = attempt.dyn

\* C4 (SpecBudget): a response that is no JSON, or whose directive has no
\* non-empty prompt, makes execute_cycle raise before any effect: nothing is
\* written to the cycle directory or to the logs, nothing is run, no wait
\* begins; the except branch then takes the counter back, so that the next
\* attempt has the same cycle id and the unchanged input.
NoUsablePrompt(r) == ~r.valid \/ r.d.prompt = None \/ r.d.prompt = Some("")

C4_BadDirectiveNoEffect ==
    /\ [](/\ effects # {} => ~NoUsablePrompt(task_data)
          /\ pc \in {"describe", "notes", "act", "ask", "wait"}
                => ~NoUsablePrompt(task_data)
          /\ (pc \in {"except", "sleep"} /\ err.src \in {"json", "prompt"})
                => effects = {}
          /\ (pc = "sleep" /\ err.src \in {"json", "prompt"})
                => /\ cycle_count + 1 = attempt.id
                   /\ dynamic_part = attempt.dyn)
    /\ [][(pc = "parse" /\ NoUsablePrompt(task_data)) =>
             /\ UNCHANGED diskvars
             /\ pc' \in {"parse", "except", "start"}
             /\ pc' # "start" => dynamic_part' = dynamic_part
             /\ pc' = "except" => err'.src \in {"json", "prompt"}]_vars

C4_Witness ==
    /\ pc = "sleep"
    /\ err.src = "prompt"
    /\ task_data.d.prompt = Some("")
    /\ CmdTruthy(task_data.d.cmd)
    /\ store[attempt.id].exists
    /\ store[attempt.id].prompt = None

\* C5 (Spec): every call that reaches the backend, the generation of the
\* cycle and the summaries alike, was admitted by the budget gate and has its
\* cost added to spent_today.
C5_EveryCallGated ==
    lastCall.kind # "none" => (lastCall.gated /\ lastCall.added > 0)

\* C6 (SpecBudget): can_make_api_call(t) answers no exactly when spent_today
\* plus the cost of t, linear in t, is above the daily budget, on every day;
\* reset_daily_budget puts spent_today to 0 on the first cycle of a day later
\* than last_reset and at no other cycle, and spent_today never goes down
\* otherwise while the process runs.
C6_GateAndReset ==
    [][/\ (pc = "generate" /\ pc' \in {"parse", "except"}) =>
             /\ gate'.spent = spent_today
             /\ gate'.ok <=>
                   ~(spent_today
                       + gate'.tokens * (InputCostPerToken + OutputCostPerToken)
                     > DailyBudgetDollars * 100000)
             /\ ~gate'.ok => (pc' = "except" /\ err'.src = "budget"
                              /\ spent_today' = spent_today)
             /\ pc' = "parse" => gate'.ok
       /\ (pc = "loop" /\ pc' = "generate") =>
             IF today > last_reset
             THEN spent_today' = 0 /\ last_reset' = today
             ELSE spent_today' = spent_today /\ last_reset' = last_reset
       /\ (pc # "start" /\ pc' # "start"
           /\ ~(pc = "loop" /\ pc' = "generate")) =>
             /\ spent_today' >= spent_today
             /\ last_reset' = last_reset]_vars

\* a call is refused on a day after the first, after the spend of that day
\* alone reached the budget
C6_Witness ==
    /\ pc = "except"
    /\ err.src = "budget"
    /\ ~gate.ok
    /\ last_reset > 0
    /\ last_reset = today

\* C7 (Spec): a restart over a store whose highest cycle id is N >= 1 gives
\* the loop, as its first input, the prompt that cycle N wrote to its
\* prompt.txt.
C7_ResumesLastPrompt ==
    [][(/\ pc = "start"
        /\ pc' # "start"
        /\ LatestCycleCount >= 1
        /\ store[LatestCycleCount].prompt # None) =>
           /\ pc' = "loop"
           /\ dynamic_part'.kind = "resume"
           /\ dynamic_part'.prompt = store[LatestCycleCount].prompt[1]]_vars

\* C8 (Spec): whatever cycle directories the store holds, with or without
\* their files, start-up raises nothing and the loop begins.
C8_StartupTolerant == ~(pc = "crashed" /\ err.src = "resume")

\* C9 (SpecInst): no two instances that run at the same time use the same
\* state directory, and no more than the cap run.
C9_DistinctDirs ==
    /\ \A i, j \in Slots :
          (i # j /\ inst[i].state = "running" /\ inst[j].state = "running")
             => inst[i].dir # inst[j].dir
    /\ Cardinality({i \in Slots : inst[i].state = "running"}) <= InstanceCap

\* C10 (SpecExec): the report holds the first 2000 characters of a stream at
\* most, with the truncation marker exactly when the stream was longer than
\* 2000 characters.
MarkedIffCut(section, stream) ==
    section.present =>
        /\ section.chars = Min(Decode(stream), OutputCap)
        /\ section.marker <=> (Decode(stream) > OutputCap)

C10_MarkerIffTruncated ==
    xpc = "done" =>
        /\ MarkedIffCut(result.stdout, sout)
        /\ MarkedIffCut(result.stderr, serr)

\* C11 (SpecPrompt): when the input is a cycle envelope that names readable
\* files under files_needed, the user text sent to the backend holds, for
\* each of them, the content or the too-large placeholder after the path.
C11_FilesInlined ==
    (/\ apc = "called"
     /\ ain.dyn.kind = "cycle"
     /\ FilesTruthy(ain.dyn.files_needed)
     /\ \A i \in 1..Len(FilesOf(ain.dyn)) :
           ain.disk[FilesOf(ain.dyn)[i]].readable) =>
        \A i \in 1..Len(FilesOf(ain.dyn)) :
           atext.inl[FilesOf(ain.dyn)[i]] \in {"content", "placeholder"}

\* C12 (SpecPrompt): a composed prompt above the ceiling never makes the
\* assembly raise: the result is cut and marked, and the text that goes to
\* the backend fits the ceiling.
C12_OversizeTruncated ==
    /\ apc # "raised"
    /\ apc = "called" =>
          PromptChars(ain.static, atext, ain.disk) <= PromptCeiling

\* C13 (SpecLogs): in a cycle that appends notes, no summary of the notes
\* is asked for when the log has under 10000 characters after the append;
\* when it has over 10000, one summary is asked for in that cycle, of a text
\* that holds the notes just appended.
C13_NotesSummarizedOverThreshold ==
    /\ []("summarize.notes" \in effects => "notes.txt" \in effects)
    /\ [][(/\ pc = "notes"
           /\ pc' \notin {"notes", "start"}
           /\ task_data.d.notes # None
           /\ task_data.d.notes[1].len > 0) =>
             LET piece == task_data.d.notes[1]
                 log == ReadFile(AppendToFile(notes_file, piece))
             IN  /\ TextLen(log) < NotesThreshold =>
                       /\ "summarize.notes" \notin effects'
                       /\ lastCall' = lastCall
                       /\ notes_file' = Some(log)
                 /\ TextLen(log) > NotesThreshold =>
                       /\ "summarize.notes" \in effects'
                       /\ pc' = "act" =>
                             /\ lastCall'.kind = "summarize"
                             /\ \E i \in 1..Len(lastCall'.text) :
                                   lastCall'.text[i] = piece]_vars

\* a second note took the log over the threshold and the summary replaced it
C13_Witness ==
    /\ pc = "act"
    /\ "summarize.notes" \in effects
    /\ lastCall.kind = "summarize"
    /\ lastCall.answer = "summary"
    /\ Len(lastCall.text) >= 2
    /\ notes_file = Some(<<SummaryJsonPiece>>)

\* C14 (SpecLogs): a summary call that brings no usable summary (an empty
\* text, no JSON, no summary field) leaves the log, descriptions or notes,
\* as the append left it, and the cycle goes on.
C14_FailedCompactionKeepsLog ==
    [][/\ (/\ pc = "describe"
           /\ "summarize.descriptions" \in effects'
           /\ lastCall' # lastCall
           /\ lastCall'.answer \in {"empty", "nojson", "nofield"}) =>
             /\ descriptions_file' =
                   AppendToFile(descriptions_file, task_data.d.description[1])
             /\ pc' = "notes"
       /\ (/\ pc = "notes"
           /\ "summarize.notes" \in effects'
           /\ lastCall' # lastCall
           /\ lastCall'.answer \in {"empty", "nojson", "nofield"}) =>
             /\ notes_file' = AppendToFile(notes_file, task_data.d.notes[1])
             /\ pc' = "act"]_vars

\* the summary of the notes came back as no JSON and the long log is kept
C14_Witness ==
    /\ pc = "act"
    /\ "summarize.notes" \in effects
    /\ lastCall.kind = "summarize"
    /\ lastCall.answer = "nojson"
    /\ TextLen(ReadFile(notes_file)) > NotesThreshold

\* C15 (SpecAct): whatever branch ran, what execute_cycle returns is the JSON
\* object with the keys result, next_prompt and files_needed and nothing
\* else, next_prompt being the prompt of the directive, files_needed its
\* files_needed, and result "" when it has neither a command nor an ask.
EnvelopeKeys(dyn) ==
    CASE dyn.kind = "cycle" -> {"result", "next_prompt", "files_needed"}
      [] dyn.kind = "resume" -> {"prompt", "files_needed", "results"}
      [] OTHER -> {}

C15_ReturnsTriple ==
    [][(pc \in {"ask", "wait"} /\ pc' = "loop") =>
          /\ EnvelopeKeys(dynamic_part') =
                {"result", "next_prompt", "files_needed"}
          /\ dynamic_part'.prompt = task_data.d.prompt
          /\ dynamic_part'.files_needed = task_data.d.files_needed
          /\ (/\ task_data.d.cmd.type = "none"
              /\ task_data.d.ask \in {None, Some(""), Some("None")})
                => dynamic_part'.result = <<>>]_vars

\* a directive that is a prompt and nothing else has been carried out
C15_Witness ==
    /\ pc = "loop"
    /\ dynamic_part = Envelope(OnlyPrompt("p1"), <<>>)
    /\ store[cycle_count].prompt # None

\* C16 (SpecTask): the commands of a list are run one after the other in the
\* order of the list, each whatever the earlier ones did, and the value
\* returned holds one report per command in that order.
C16_AllInOrder ==
    /\ \A i \in 1..Len(tdone) :
          /\ i <= Len(CommandsOf(task))
          /\ tdone[i].cmd = CommandsOf(task)[i]
    /\ tpc = "returned" =>
          /\ Len(tdone) = Len(CommandsOf(task))
          /\ Len(treturn) = Len(CommandsOf(task))
          /\ \A i \in 1..Len(treturn) :
                /\ treturn[i].cmd = CommandsOf(task)[i]
                /\ treturn[i].report = RunCommand(tdone[i].did)

\* a list of three was run to its end though the first command failed and
\* the second was left running after the timeout
C16_Witness ==
    /\ tpc = "returned"
    /\ Len(CommandsOf(task)) = 3
    /\ tdone[1].did.rc = Some(1)
    /\ tdone[2].did.rc = None
    /\ Len(treturn) = 3

\* C17 (SpecAct): a directive with an ask that is neither "" nor "None" has its
\* ask.json written after its commands have run; the cycle then waits, and
\* leaves the wait only when results.txt is in its directory, returning the
\* content of that file as the result.
C17_WaitsForHuman ==
    /\ [](pc = "wait" =>
             /\ task_data.d.ask \notin {None, Some(""), Some("None")}
             /\ store[cycle_count].ask = Some(JsonDump(task_data.d.ask[1]))
             /\ task_data.d.cmd.type # "none" => "run" \in effects)
    /\ [][/\ (pc = "wait" /\ pc' \notin {"wait", "start"}) =>
                /\ store[cycle_count].human # None
                /\ pc' = "loop"
                /\ dynamic_part'.result =
                      <<[human |-> store[cycle_count].human[1]]>>
          /\ (/\ pc = "ask"
              /\ task_data.d.ask \notin {None, Some(""), Some("None")}
              /\ pc' \notin {"ask", "start"}) => pc' = "wait"]_vars

\* the answer to an ask that came with commands has been returned
C17_Witness ==
    /\ pc = "loop"
    /\ dynamic_part.kind = "cycle"
    /\ dynamic_part.result = <<[human |-> "answer"]>>
    /\ store[cycle_count].results # None
    /\ store[cycle_count].ask # None

\* C18 (Spec): a file of a cycle directory, once written, is never written
\* again nor removed.
C18_FilesImmutable ==
    [][\A i \in DOMAIN store :
          /\ store[i].prompt # None => store'[i].prompt = store[i].prompt
          /\ store[i].files # None => store'[i].files = store[i].files
          /\ store[i].cmd # None => store'[i].cmd = store[i].cmd
          /\ store[i].results # None => store'[i].results = store[i].results
          /\ store[i].ask # None => store'[i].ask = store[i].ask]_vars

\* C19 (Spec): when a cycle that ran commands returns, the result of the
\* next input is the report of those commands, with or without an ask.
C19_ReportFedBack ==
    [][(pc \in {"ask", "wait"} /\ pc' = "loop" /\ "run" \in effects) =>
          dynamic_part'.result = command_output]_vars

\* C20 (SpecLogs): a summary of the description log is asked for in every
\* cycle whose id is a multiple of 20, and in no other cycle.
C20_CompactsEveryTwentieth ==
    [][(pc = "describe" /\ pc' \in {"notes", "except"}) =>
          ("summarize.descriptions" \in effects'
              <=> cycle_count % SummaryEvery = 0)]_vars

\* C21: in every reachable state the spend recorded for the day is at most
\* the daily budget: the amount added after an admitted generation call
\* never takes spent_today above daily_budget.
C21_SpendWithinBudget == spent_today <= DailyBudget

\* C22: the results.txt consumed as the answer to an ask was created after
\* that ask's ask.json was written: whenever wait_for_human_input returns,
\* the answer it read arrived during this attempt's wait, never left in the
\* cycle directory by an earlier attempt of the same cycle id.
C22_AnswerIsFresh ==
    [][(pc = "wait" /\ pc' = "loop") => "answered" \in effects]_vars

====
